---- MODULE Spec2Model ----
(***************************************************************************)
(* Model of neo_trade_ui.py: a Streamlit panel over the NeoAPI client.     *)
(* Every user interaction reruns the script top to bottom with at most one *)
(* button pressed; st.session_state is the only state that survives a      *)
(* rerun.  One action of the model is one rerun.                           *)
(***************************************************************************)
EXTENDS Integers, Sequences, FiniteSets

\* ------------------------------ bounds ---------------------------------- \*

\* number of NeoAPI objects the collaborator constructs in one behaviour
MaxHandles == 3
\* number of login attempts that reach the collaborator in one behaviour
MaxAttempts == 3

\* ------------------------------ inputs ---------------------------------- \*

\* options of the "Environment" selectbox
Environments == {"prod", "uat"}

\* Python's None, and an absent session_state key read with .get(key)
None == <<>>

\* characters str.strip() removes
Whitespace == {" "}

\* values typed into the "Consumer Key / Token" field (sequences of characters)
Keys == {<<>>, <<" ">>, <<"k">>, <<" ", "k", " ">>}

\* values typed into the mobile, UCC, TOTP and MPIN fields
Texts == {<<>>, <<" ">>, <<"1">>}

\* the three report buttons of Step 4 and the client method each one calls
ReportKinds == {"order_report", "positions", "holdings"}

VARIABLES
    environment,             \* value of the "Environment" selectbox
    clients,                 \* session_state["neo_client_<env>"], per env
    logged_in,               \* session_state["logged_in"]: "absent", "False", "True"
    last_login_response,     \* session_state["last_login_response"]
    last_validate_response,  \* session_state["last_validate_response"]
    handles,                 \* NeoAPI objects constructed so far
    attempts,                \* login attempts that reached the collaborator
    action,                  \* the button pressed in this rerun, with its inputs
    status,                  \* the message this rerun displays
    calls,                   \* collaborator calls made by this rerun, in order
    trading                  \* ids of the clients whose last completed login
                             \* attempt succeeded and that were not logged
                             \* out since (history of the calls made)

vars == <<environment, clients, logged_in, last_login_response,
          last_validate_response, handles, attempts, action, status, calls,
          trading>>

session == <<clients, logged_in, last_login_response, last_validate_response>>

\* ------------------------------ helpers --------------------------------- \*

RECURSIVE LStrip(_)
LStrip(s) == IF s # <<>> /\ Head(s) \in Whitespace THEN LStrip(Tail(s)) ELSE s

RECURSIVE RStrip(_)
RStrip(s) ==
    IF s # <<>> /\ s[Len(s)] \in Whitespace
    THEN RStrip(SubSeq(s, 1, Len(s) - 1))
    ELSE s

\* str.strip()
Strip(s) == RStrip(LStrip(s))

IsBlank_NoStrip(text) == text = <<>>

\* `not text.strip()`
IsBlank(text) == Strip(text) = <<>>

\* get_client(env)
get_client(env) == clients[env]

LoggedInGate_Open == TRUE

\* st.session_state.get("logged_in", False)
LoggedInGate == logged_in = "True"

\* a collaborator call made on a client object, and whether it raised
Call(fn, client, raised) == [fn |-> fn, client |-> client.id, raised |-> raised]

\* the object a collaborator call of a login attempt returns
Response(fn, attempt) == [fn |-> fn, attempt |-> attempt]

\* the session as the script addresses it when `environment` is env
Session(env) ==
    [client_handle |-> get_client(env),
     authenticated |-> LoggedInGate,
     last_login_response |-> last_login_response,
     last_validate_response |-> last_validate_response]

\* ------------------------------- Init ----------------------------------- \*

Init ==
    /\ environment = "prod"
    /\ clients = [e \in Environments |-> None]
    /\ logged_in = "absent"
    /\ last_login_response = None
    /\ last_validate_response = None
    /\ handles = 0
    /\ attempts = 0
    /\ action = [op |-> "start"]
    /\ status = "none"
    /\ calls = <<>>
    /\ trading = {}

\* ------------------------------ actions --------------------------------- \*

\* a rerun caused by changing the selectbox: no button is pressed
SelectEnvironment(env) ==
    /\ env # environment
    /\ environment' = env
    /\ action' = [op |-> "select_environment"]
    /\ status' = "none"
    /\ calls' = <<>>
    /\ UNCHANGED <<session, handles, attempts, trading>>

ResetLoginFlags_KeepValidate ==
    /\ logged_in' = "False"
    /\ last_login_response' = None
    /\ UNCHANGED last_validate_response

\* "Reset login & session flags"
ResetLoginFlags ==
    /\ logged_in' = "False"
    /\ last_login_response' = None
    /\ last_validate_response' = None

CreateExcept_Resets == UNCHANGED clients /\ ResetLoginFlags

\* the except branch of the create handler: only the error message is shown
CreateExcept == UNCHANGED session

\* "Create / Reset NeoAPI Client" pressed
CreateClient(consumer_key) ==
    /\ action' = [op |-> "create_client", consumer_key |-> consumer_key]
    /\ UNCHANGED <<environment, attempts, trading>>
    /\ IF IsBlank(consumer_key)
       THEN /\ status' = "validation_error"
            /\ calls' = <<>>
            /\ UNCHANGED <<session, handles>>
       ELSE /\ handles < MaxHandles
            /\ handles' = handles + 1
            /\ LET client == [id |-> handles + 1,
                              environment |-> environment,
                              consumer_key |-> Strip(consumer_key)]
               IN  \/ \* NeoAPI(...) raises
                      /\ calls' = <<Call("NeoAPI", client, TRUE)>>
                      /\ status' = "client_creation_failed"
                      /\ CreateExcept
                   \/ \* NeoAPI(...) returns the client
                      /\ calls' = <<Call("NeoAPI", client, FALSE)>>
                      /\ clients' = [clients EXCEPT ![environment] = client]
                      /\ ResetLoginFlags
                      /\ status' = "client_created"

LoginExcept_KeepFlag == UNCHANGED logged_in

\* the except branch of the login handler
LoginExcept == logged_in' = "False"

LoginInputsMissing_NoMpin(mobile_number, ucc, totp, mpin) ==
    IsBlank(mobile_number) \/ IsBlank(ucc) \/ IsBlank(totp)

\* `not (mobile_number.strip() and ucc.strip() and totp.strip() and mpin.strip())`
LoginInputsMissing(mobile_number, ucc, totp, mpin) ==
    IsBlank(mobile_number) \/ IsBlank(ucc) \/ IsBlank(totp) \/ IsBlank(mpin)

LoginCalls_ValidateAnyway(client, login_raises, validate_raises) ==
    <<Call("totp_login", client, login_raises),
      Call("totp_validate", client, validate_raises)>>

\* the calls the try block of the login handler makes: totp_validate is
\* reached only when totp_login returned
LoginCalls(client, login_raises, validate_raises) ==
    IF login_raises
    THEN <<Call("totp_login", client, TRUE)>>
    ELSE <<Call("totp_login", client, FALSE),
           Call("totp_validate", client, validate_raises)>>

\* "Login & Generate Trading Session" pressed
Login(mobile_number, ucc, totp, mpin) ==
    LET client == get_client(environment) IN
    /\ action' = [op |-> "login", mobile_number |-> mobile_number,
                  ucc |-> ucc, totp |-> totp, mpin |-> mpin]
    /\ UNCHANGED <<environment, clients, handles>>
    /\ IF client = None
       THEN /\ status' = "validation_error"
            /\ calls' = <<>>
            /\ UNCHANGED <<logged_in, last_login_response,
                           last_validate_response, attempts, trading>>
       ELSE IF LoginInputsMissing(mobile_number, ucc, totp, mpin)
       THEN /\ status' = "validation_error"
            /\ calls' = <<>>
            /\ UNCHANGED <<logged_in, last_login_response,
                           last_validate_response, attempts, trading>>
       ELSE /\ attempts < MaxAttempts
            /\ attempts' = attempts + 1
            /\ \/ \* client.totp_login(...) raises
                  /\ calls' = LoginCalls(client, TRUE, FALSE)
                  /\ LoginExcept
                  /\ status' = "login_failed"
                  /\ trading' = trading \ {client.id}
                  /\ UNCHANGED <<last_login_response, last_validate_response>>
               \/ \* totp_login returns, client.totp_validate(...) raises
                  /\ last_login_response' = Response("totp_login", attempts + 1)
                  /\ calls' = LoginCalls(client, FALSE, TRUE)
                  /\ LoginExcept
                  /\ status' = "login_failed"
                  /\ trading' = trading \ {client.id}
                  /\ UNCHANGED last_validate_response
               \/ \* both calls return
                  /\ last_login_response' = Response("totp_login", attempts + 1)
                  /\ calls' = LoginCalls(client, FALSE, FALSE)
                  /\ last_validate_response' =
                         Response("totp_validate", attempts + 1)
                  /\ logged_in' = "True"
                  /\ trading' = trading \cup {client.id}
                  /\ status' = "login_ok"

PlaceOrderTry_Retry(client, raises) ==
    /\ calls' = IF raises
                THEN <<Call("place_order", client, TRUE),
                       Call("place_order", client, TRUE)>>
                ELSE <<Call("place_order", client, FALSE)>>
    /\ status' = IF raises THEN "order_failed" ELSE "order_placed"
    /\ UNCHANGED <<session, trading>>

PlaceOrderTry_LogsOut(client, raises) ==
    /\ calls' = <<Call("place_order", client, raises)>>
    /\ status' = IF raises THEN "order_failed" ELSE "order_placed"
    /\ logged_in' = IF raises THEN "False" ELSE logged_in
    /\ UNCHANGED <<clients, last_login_response, last_validate_response,
                   trading>>

\* the try / except around client.place_order(...)
PlaceOrderTry(client, raises) ==
    /\ calls' = <<Call("place_order", client, raises)>>
    /\ status' = IF raises THEN "order_failed" ELSE "order_placed"
    /\ UNCHANGED <<session, trading>>

\* the user goes to Step 3 to place an order; the "Place Order" button is
\* rendered, and so can be pressed, only behind the logged_in gate
PlaceOrder ==
    LET client == get_client(environment) IN
    /\ action' = [op |-> "place_order"]
    /\ UNCHANGED <<environment, handles, attempts>>
    /\ IF ~LoggedInGate
       THEN /\ status' = "not_logged_in"
            /\ calls' = <<>>
            /\ UNCHANGED <<session, trading>>
       ELSE IF client = None
       THEN /\ status' = "client_missing"
            /\ calls' = <<>>
            /\ UNCHANGED <<session, trading>>
       ELSE \E raises \in BOOLEAN : PlaceOrderTry(client, raises)

ReportTry_Uncaught(kind, client, raises) ==
    /\ calls' = <<Call(kind, client, raises)>>
    /\ status' = IF raises THEN "uncaught_exception" ELSE "report_shown"
    /\ UNCHANGED <<session, trading>>

\* the try / except around client.order_report() / positions() / holdings()
ReportTry(kind, client, raises) ==
    /\ calls' = <<Call(kind, client, raises)>>
    /\ status' = IF raises THEN "report_failed" ELSE "report_shown"
    /\ UNCHANGED <<session, trading>>

\* the user goes to Step 4 for a report; the three buttons are rendered only
\* behind the logged_in gate.  With no client for the environment the method
\* lookup on None raises AttributeError inside the try.
FetchReport(kind) ==
    LET client == get_client(environment) IN
    /\ action' = [op |-> kind]
    /\ UNCHANGED <<environment, handles, attempts>>
    /\ IF ~LoggedInGate
       THEN /\ status' = "not_logged_in"
            /\ calls' = <<>>
            /\ UNCHANGED <<session, trading>>
       ELSE IF client = None
       THEN /\ status' = "report_failed"
            /\ calls' = <<>>
            /\ UNCHANGED <<session, trading>>
       ELSE \E raises \in BOOLEAN : ReportTry(kind, client, raises)

LogoutNoClient_Resets ==
    /\ logged_in' = "False"
    /\ UNCHANGED <<clients, trading>>

\* the branch of the logout handler taken without a client: a warning only
LogoutNoClient == UNCHANGED <<logged_in, clients, trading>>

LogoutReset_DropsClient(client) ==
    /\ logged_in' = "False"
    /\ clients' = [clients EXCEPT ![environment] = None]
    /\ trading' = trading \ {client.id}

\* what the logout handler does once client.logout() has returned
LogoutReset(client) ==
    /\ logged_in' = "False"
    /\ UNCHANGED clients
    /\ trading' = trading \ {client.id}

\* "Logout NeoAPI Session" pressed
Logout ==
    LET client == get_client(environment) IN
    /\ action' = [op |-> "logout"]
    /\ UNCHANGED <<environment, last_login_response,
                   last_validate_response, handles, attempts>>
    /\ IF client = None
       THEN /\ status' = "no_client_warning"
            /\ calls' = <<>>
            /\ LogoutNoClient
       ELSE \/ \* client.logout() raises
               /\ calls' = <<Call("logout", client, TRUE)>>
               /\ status' = "logout_failed"
               /\ UNCHANGED <<logged_in, clients, trading>>
            \/ \* client.logout() returns
               /\ calls' = <<Call("logout", client, FALSE)>>
               /\ LogoutReset(client)
               /\ status' = "logout_ok"

\* what the user has typed into <<mobile, UCC, TOTP, MPIN>> when pressing the
\* login button: the untouched form (every field at its default ""), or a
\* form with at most one field left empty or whitespace-only
LoginInputs ==
    {<<(<<>>), (<<>>), (<<>>), (<<>>)>>} \cup
    {t \in Texts \X Texts \X Texts \X Texts :
        Cardinality({i \in 1..4 : Strip(t[i]) = <<>>}) <= 1}

Next ==
    \/ \E env \in Environments : SelectEnvironment(env)
    \/ \E consumer_key \in Keys : CreateClient(consumer_key)
    \/ \E t \in LoginInputs : Login(t[1], t[2], t[3], t[4])
    \/ PlaceOrder
    \/ \E kind \in ReportKinds : FetchReport(kind)
    \/ Logout

Spec == Init /\ [][Next]_vars

TypeOK ==
    /\ environment \in Environments
    /\ logged_in \in {"absent", "False", "True"}
    /\ handles \in 0..MaxHandles
    /\ attempts \in 0..MaxAttempts
    /\ \A e \in Environments :
           clients[e] = None \/ clients[e].id \in 1..handles
    /\ trading \subseteq 1..handles

\* ------------------------- properties of the panel ----------------------- \*

LoginFields == {"mobile_number", "ucc", "totp", "mpin"}

\* this rerun was a login press that got past both local checks
LoginReachedCollaborator ==
    /\ action.op = "login"
    /\ clients[environment] # None
    /\ \A f \in LoginFields : Strip(action[f]) # <<>>

\* C1: after a login press that passes the local checks, logged_in is True
\* exactly when totp_login and then totp_validate both returned; when either
\* of them raised, logged_in is False whatever it was before.
C1_LoggedInIffBothCallsReturned ==
    LoginReachedCollaborator =>
        /\ (logged_in = "True") <=>
               (Len(calls) = 2 /\ ~calls[1].raised /\ ~calls[2].raised)
        /\ (\E i \in DOMAIN calls : calls[i].raised) => logged_in = "False"

\* a session that an earlier attempt had logged in, and whose validate call
\* raised in this attempt
C1_Witness ==
    /\ LoginReachedCollaborator
    /\ Len(calls) = 2
    /\ calls[2].raised
    /\ last_validate_response # None
    /\ logged_in = "False"

\* C2: while logged_in is not True, a place-order or report request (order
\* book, positions, holdings) is turned away as not logged in and makes no
\* collaborator call.
C2_NotLoggedInMakesNoCall ==
    [][(logged_in # "True" /\ action'.op \in {"place_order"} \cup ReportKinds)
          => (status' = "not_logged_in" /\ calls' = <<>>)]_vars

\* a request turned away although the environment has a client
C2_Witness ==
    /\ action.op \in {"place_order"} \cup ReportKinds
    /\ status = "not_logged_in"
    /\ calls = <<>>
    /\ clients[environment] # None

\* C3: after a logout press on an environment that has a client, logged_in
\* is not True, both when client.logout() returns and when it raises.
C3_LogoutAlwaysResets ==
    (action.op = "logout" /\ clients[environment] # None) => logged_in # "True"

\* C4: a login press on the selected environment leaves the authenticated
\* flag and both cached responses of every other environment unchanged.
C4_LoginLeavesOtherEnvironments ==
    [][action'.op = "login" =>
          \A B \in Environments \ {environment'} :
              /\ Session(B)'.authenticated = Session(B).authenticated
              /\ Session(B)'.last_login_response =
                     Session(B).last_login_response
              /\ Session(B)'.last_validate_response =
                     Session(B).last_validate_response]_vars

\* C5: a successful client creation for the selected environment leaves the
\* client, the authenticated flag and the cached responses of every other
\* environment unchanged.
C5_CreateLeavesOtherEnvironments ==
    [][(action'.op = "create_client" /\ status' = "client_created") =>
          \A B \in Environments \ {environment'} :
              Session(B)' = Session(B)]_vars

\* this rerun was a create press with a non-blank key whose NeoAPI(...) returned
CreateSucceeded ==
    /\ action.op = "create_client"
    /\ Strip(action.consumer_key) # <<>>
    /\ calls # <<>>
    /\ ~calls[1].raised

\* C6: after a create press with a non-blank key whose construction
\* succeeded, the selected environment holds the new client, logged_in is
\* False and both cached responses are cleared.
C6_CreateResetsSession ==
    CreateSucceeded =>
        /\ clients[environment] # None
        /\ clients[environment].id = calls[1].client
        /\ logged_in = "False"
        /\ last_login_response = None
        /\ last_validate_response = None

\* a client recreated after login attempts had reached the collaborator
C6_Witness ==
    /\ CreateSucceeded
    /\ clients[environment].id > 1
    /\ attempts > 0
    /\ last_login_response = None

\* C7: a create press with an empty or whitespace-only key is rejected
\* locally: NeoAPI(...) is not called and the whole session state is as
\* before.
C7_BlankKeyRejected ==
    [][(action'.op = "create_client" /\ Strip(action'.consumer_key) = <<>>) =>
          /\ calls' = <<>>
          /\ handles' = handles
          /\ status' = "validation_error"
          /\ UNCHANGED session]_vars

\* a whitespace-only key rejected while a logged-in session exists
C7_Witness ==
    /\ action.op = "create_client"
    /\ action.consumer_key = <<" ">>
    /\ status = "validation_error"
    /\ logged_in = "True"
    /\ clients[environment] # None

\* C8: in every reachable state, an environment whose session is
\* authenticated has a client.
C8_AuthenticatedHasClient ==
    \A e \in Environments :
        Session(e).authenticated => Session(e).client_handle # None

\* C9: after a login press whose totp_login call raised, logged_in is False,
\* both cached responses are absent and the failure is shown as a login error.
C9_LoginRaisedLeavesNothingCached ==
    (LoginReachedCollaborator /\ calls[1].raised) =>
        /\ logged_in = "False"
        /\ last_login_response = None
        /\ last_validate_response = None
        /\ status = "login_failed"

\* C10: after a login press that reached the collaborator, each cached
\* response is either absent or the one this attempt's call returned.
C10_NoStaleResponse ==
    LoginReachedCollaborator =>
        /\ last_login_response # None =>
               last_login_response.attempt = attempts
        /\ last_validate_response # None =>
               last_validate_response.attempt = attempts

\* C11: when NeoAPI(...) raises during a create press, no client is stored
\* and the session is as before: an environment without a client stays
\* without one, and an existing client, the logged_in flag and the cached
\* responses are kept.
C11_FailedCreateKeepsSession ==
    [][(action'.op = "create_client" /\ calls' # <<>> /\ calls'[1].raised) =>
          /\ UNCHANGED session
          /\ status' = "client_creation_failed"]_vars

\* a failed construction over an environment that was logged in on its
\* earlier client
C11_Witness ==
    /\ action.op = "create_client"
    /\ calls # <<>>
    /\ calls[1].raised
    /\ clients[environment] # None
    /\ clients[environment].id < calls[1].client
    /\ logged_in = "True"

\* C12: a login press is rejected locally when the selected environment has
\* no client or when one of the four inputs is empty after trimming: no
\* collaborator call is made and logged_in and both cached responses are
\* unchanged.
C12_LoginRejectedLocally ==
    [][(/\ action'.op = "login"
        /\ \/ clients[environment] = None
           \/ \E f \in LoginFields : Strip(action'[f]) = <<>>) =>
          /\ calls' = <<>>
          /\ status' = "validation_error"
          /\ attempts' = attempts
          /\ UNCHANGED session]_vars

\* a login rejected for a whitespace-only MPIN while the session is logged in
C12_Witness ==
    /\ action.op = "login"
    /\ action.mpin = <<" ">>
    /\ \A f \in LoginFields \ {"mpin"} : Strip(action[f]) # <<>>
    /\ clients[environment] # None
    /\ status = "validation_error"
    /\ logged_in = "True"

\* C13: within one login press totp_validate is called only after totp_login
\* of the same press returned, on the same client, and never when totp_login
\* raised; when totp_login returned and totp_validate raised, this attempt's
\* login response is cached while logged_in is False.
C13_ValidateOnlyAfterLogin ==
    action.op = "login" =>
        /\ \A i \in DOMAIN calls :
               calls[i].fn = "totp_validate" =>
                   /\ i = 2
                   /\ calls[1].fn = "totp_login"
                   /\ ~calls[1].raised
                   /\ calls[1].client = calls[2].client
        /\ (calls # <<>> /\ calls[1].raised) => Len(calls) = 1
        /\ (Len(calls) = 2 /\ calls[2].raised) =>
               /\ last_login_response = Response("totp_login", attempts)
               /\ logged_in = "False"

\* a partial failure: this attempt's login response cached, flag withheld
C13_Witness ==
    /\ action.op = "login"
    /\ Len(calls) = 2
    /\ calls[2].raised
    /\ attempts > 1
    /\ last_login_response = Response("totp_login", attempts)
    /\ logged_in = "False"

\* the collaborator entry points a press of each button may call
EntryPoints(op) ==
    CASE op = "create_client" -> {"NeoAPI"}
      [] op = "login" -> {"totp_login", "totp_validate"}
      [] op = "place_order" -> {"place_order"}
      [] op \in ReportKinds -> {op}
      [] op = "logout" -> {"logout"}
      [] OTHER -> {}

\* C14: one press calls each collaborator entry point at most once and
\* nothing is retried: a place-order or report press that gets past the gate
\* on an environment with a client makes exactly one call, to its own entry
\* point; a login press makes at most one totp_login and one totp_validate,
\* a logout press at most one logout; a call that raised is the last call of
\* its press.
C14_OneCallPerEntryPoint ==
    /\ \A i, j \in DOMAIN calls : calls[i].fn = calls[j].fn => i = j
    /\ \A i \in DOMAIN calls :
           /\ calls[i].fn \in EntryPoints(action.op)
           /\ calls[i].raised => i = Len(calls)
    /\ (/\ action.op \in {"place_order"} \cup ReportKinds
        /\ logged_in = "True"
        /\ clients[environment] # None) =>
           /\ Len(calls) = 1
           /\ calls[1].fn = action.op
           /\ calls[1].client = clients[environment].id

\* an accepted order whose single call raised
C14_Witness ==
    /\ action.op = "place_order"
    /\ status = "order_failed"
    /\ Len(calls) = 1
    /\ calls[1].raised

\* C15: a logout press on an environment without a client is a no-op:
\* client.logout() is not called and no part of the session state changes.
C15_LogoutWithoutClientIsNoOp ==
    [][(action'.op = "logout" /\ clients[environment] = None) =>
          /\ calls' = <<>>
          /\ status' = "no_client_warning"
          /\ UNCHANGED session]_vars

\* a logout pressed on an environment without a client while the logged_in
\* flag, set through the other environment, is True
C15_Witness ==
    /\ action.op = "logout"
    /\ clients[environment] = None
    /\ status = "no_client_warning"
    /\ logged_in = "True"

\* the message each handler's except branch shows for a raising entry point
ErrorShown(fn) ==
    CASE fn = "NeoAPI" -> "client_creation_failed"
      [] fn \in {"totp_login", "totp_validate"} -> "login_failed"
      [] fn = "place_order" -> "order_failed"
      [] fn \in ReportKinds -> "report_failed"
      [] fn = "logout" -> "logout_failed"

\* C16: a collaborator call that raises is caught by the handler that made
\* it and shown as that handler's error; the session state stays well
\* defined and the panel accepts a next user action.
C16_FailuresAreCaught ==
    \A i \in DOMAIN calls :
        calls[i].raised =>
            /\ status = ErrorShown(calls[i].fn)
            /\ TypeOK
            /\ ENABLED Logout
            /\ ENABLED PlaceOrder
            /\ \E env \in Environments : ENABLED SelectEnvironment(env)

\* a report whose call raised
C16_Witness ==
    /\ action.op \in ReportKinds
    /\ calls # <<>>
    /\ calls[1].raised
    /\ status = "report_failed"

\* C17: every place_order or report call is made on a client that is itself
\* logged in: its last completed login attempt succeeded and it was not
\* logged out since.
C17_CallsOnlyOnLoggedInClient ==
    \A i \in DOMAIN calls :
        calls[i].fn \in {"place_order"} \cup ReportKinds =>
            calls[i].client \in trading

\* C18: a place-order or report press leaves the logged_in flag, every
\* environment's client and both cached responses unchanged, whether it is
\* turned away, succeeds or its call raises.
C18_OrdersAndReportsReadOnly ==
    [][action'.op \in {"place_order"} \cup ReportKinds =>
          UNCHANGED session]_vars

\* a failed order that left the session logged in
C18_Witness ==
    /\ action.op = "place_order"
    /\ status = "order_failed"
    /\ logged_in = "True"
    /\ last_validate_response # None

\* C19: an environment that has a client keeps having one; the stored client
\* changes only by a successful create press on that environment, which
\* stores the newly constructed client.
C19_ClientNeverRemoved ==
    [][\A e \in Environments :
          /\ clients[e] # None => clients'[e] # None
          /\ clients'[e] # clients[e] =>
                 /\ action'.op = "create_client"
                 /\ status' = "client_created"
                 /\ environment' = e
                 /\ handles' = handles + 1
                 /\ clients'[e].id = handles']_vars

\* a client still stored after a successful logout
C19_Witness ==
    /\ action.op = "logout"
    /\ status = "logout_ok"
    /\ clients[environment] # None
    /\ logged_in = "False"

====
